---- MODULE Spec2Model ----
(***************************************************************************)
(* mail_templated.EmailMessage (src/mail_templated/message.py): one        *)
(* message instance, its template/blocks cache, render(), send() and the   *)
(* pickling hooks.  The template engine, the loader and the mail transport *)
(* are external: the loader is a finite table of templates, a block node   *)
(* renders by substituting the context variable x, and the transport       *)
(* answers nondeterministically (a count, or an exception).                *)
(*                                                                         *)
(* Text is a sequence of characters; "LF" and "CR" are '\n' and '\r',      *)
(* "SP" is a space, "VAR" inside a block stands for {{ x }}.               *)
(***************************************************************************)
EXTENDS Integers, Sequences, FiniteSets, TLC

VARIABLES
    msg,    \* the EmailMessage instance: its __dict__ plus the inherited fields
    alive,  \* the constructor returned an object
    last    \* the most recent call on the instance, and how it ended

vars == <<msg, alive, last>>

\* Cap on the number of alternative parts a message carries in the model.
MaxAlternatives == 2

----------------------------------------------------------------------------
(* External collaborators *)

Text == [kind |-> "text", name |-> "", content |-> <<>>]
Block(n, c) == [kind |-> "block", name |-> n, content |-> c]

\* The loader's table: template name -> top-level nodelist of the template.
Templates ==
    [ welcome  |-> << Text,
                      Block("subject", <<"LF", "s", "VAR", "CR", "LF">>),
                      Text,
                      Block("body", <<"CR", "LF", "SP", "b", "LF", "b", "SP", "LF">>),
                      Block("html", <<"LF", "VAR", "LF">>) >>,
      htmlonly |-> << Block("html", <<"h", "VAR", "LF">>) >>,
      digest   |-> << Block("subject", <<"s">>),
                      Block("footer", <<"f">>),
                      Block("subject", <<"VAR", "s">>),
                      Block("body", <<"LF", "VAR">>),
                      Block("html", <<"h">>) >>,
      plain    |-> << Text,
                      Block("footer", <<"f">>),
                      Block("body", <<"VAR", "CR">>) >> ]

\* Names a caller may assign; "missing" is not known to the loader.
TemplateNames == DOMAIN Templates \cup {"missing"}

\* Template objects a caller may assign directly to msg.template.
TemplateObjects == {"htmlonly", "plain"}

\* Context mappings a caller may supply (one variable, x).
Contexts == { [x |-> <<>>], [x |-> <<"LF", "a">>] }

\* django.template.loader.get_template: the template object is identified by
\* its name; getattr(template, 'template', template) unwraps the 1.8 wrapper.
Resolves(name) == name \in DOMAIN Templates
get_template(name) == name
nodelist(template) == Templates[template]

\* BlockNode.render(context): the block's content with {{ x }} substituted.
RECURSIVE render_content(_, _)
render_content(c, context) ==
    IF c = <<>> THEN <<>>
    ELSE (IF Head(c) = "VAR" THEN context.x ELSE <<Head(c)>>)
         \o render_content(Tail(c), context)

\* str.strip(chars): drop leading and trailing characters that are in chars.
RECURSIVE lstrip(_, _)
lstrip(s, chars) ==
    IF s # <<>> /\ Head(s) \in chars THEN lstrip(Tail(s), chars) ELSE s

RECURSIVE rstrip(_, _)
rstrip(s, chars) ==
    IF s # <<>> /\ s[Len(s)] \in chars
    THEN rstrip(SubSeq(s, 1, Len(s) - 1), chars)
    ELSE s

\* A strip that also takes spaces, as str.strip() without argument would.
strip_whitespace(s, chars) ==
    rstrip(lstrip(s, chars \cup {"SP"}), chars \cup {"SP"})

strip(s, chars) == rstrip(lstrip(s, chars), chars)

\* '\n\r'
NR == {"LF", "CR"}

----------------------------------------------------------------------------
(* The instance *)

\* A block slot (_subject, _body, _html): None, a reference to node i of
\* template t, or "undef" when the attribute does not exist on the object.
None == [st |-> "none", t |-> "", i |-> 0]
Undef == [st |-> "undef", t |-> "", i |-> 0]
Ref(t, i) == [st |-> "ref", t |-> t, i |-> i]

BlockRender(slot, context) ==
    render_content(nodelist(slot.t)[slot.i].content, context)

\* __init__ lines 27-30, before the template is loaded.  The inherited
\* fields hold what the base constructor stores for subject=None, body=None
\* (a false value, modelled as the empty text).
Blank ==
    [ _subject |-> None, _body |-> None, _html |-> None, _rendered |-> FALSE,
      _template_name |-> "", _template |-> "",
      context |-> [x |-> <<>>],
      subject |-> <<>>, body |-> <<>>,
      content_subtype |-> "plain", alternatives |-> <<>> ]

\* The template setter's loop over self._template.nodelist.
RECURSIVE scan(_, _, _)
scan(m, t, i) ==
    IF i > Len(nodelist(t)) THEN m
    ELSE LET block == nodelist(t)[i]
             m1 == IF block.kind # "block" THEN m
                   ELSE IF block.name = "subject"
                        THEN [m EXCEPT !._subject = Ref(t, i)]
                        ELSE IF block.name = "body"
                             THEN [m EXCEPT !._body = Ref(t, i)]
                             ELSE m
             m2 == IF block.kind = "block" /\ block.name = "html"
                   THEN [m1 EXCEPT !._html = Ref(t, i)]
                   ELSE m1
         IN  scan(m2, t, i + 1)

\* A loop that keeps the first block of a name instead of the last.
RECURSIVE scan_first(_, _, _)
scan_first(m, t, i) ==
    IF i > Len(nodelist(t)) THEN m
    ELSE LET block == nodelist(t)[i]
             m1 == IF block.kind # "block" THEN m
                   ELSE IF block.name = "subject" /\ m._subject.t # t
                        THEN [m EXCEPT !._subject = Ref(t, i)]
                        ELSE IF block.name = "body" /\ m._body.t # t
                             THEN [m EXCEPT !._body = Ref(t, i)]
                             ELSE m
             m2 == IF block.kind = "block" /\ block.name = "html" /\ m1._html.t # t
                   THEN [m1 EXCEPT !._html = Ref(t, i)]
                   ELSE m1
         IN  scan_first(m2, t, i + 1)

set_template_first_match(m, value) ==
    scan_first([m EXCEPT !._template = value], value, 1)

\* A setter that also marks the instance as not rendered.
set_template_unrendered(m, value) ==
    [scan([m EXCEPT !._template = value], value, 1) EXCEPT !._rendered = FALSE]

\* template.setter
set_template(m, value) == scan([m EXCEPT !._template = value], value, 1)

\* A setter that stores the name only once the template is loaded.
set_template_name_atomic(m, value) ==
    IF Resolves(value)
    THEN [m |-> set_template([m EXCEPT !._template_name = value],
                             get_template(value)),
          err |-> "ok"]
    ELSE [m |-> m, err |-> "TemplateDoesNotExist"]

\* A setter that leaves an unresolvable name to be found later.
set_template_name_lazy(m, value) ==
    LET m1 == [m EXCEPT !._template_name = value]
    IN  IF Resolves(value)
        THEN [m |-> set_template(m1, get_template(value)), err |-> "ok"]
        ELSE [m |-> m1, err |-> "ok"]

\* template_name.setter: the name is stored before the load is attempted.
set_template_name(m, value) ==
    LET m1 == [m EXCEPT !._template_name = value]
    IN  IF Resolves(value)
        THEN [m |-> set_template(m1, get_template(value)), err |-> "ok"]
        ELSE [m |-> m1, err |-> "TemplateDoesNotExist"]

\* render(), lines 86-87
render_subject(m) ==
    IF m._subject # None
    THEN [m EXCEPT !.subject = strip(BlockRender(m._subject, m.context), NR)]
    ELSE m

\* A body step that sets the subtype back to plain.
render_body_resets_subtype(m) ==
    IF m._body # None
    THEN [m EXCEPT !.body = strip(BlockRender(m._body, m.context), NR),
                   !.content_subtype = "plain"]
    ELSE m

\* render(), lines 89-90
render_body(m) ==
    IF m._body # None
    THEN [m EXCEPT !.body = strip(BlockRender(m._body, m.context), NR)]
    ELSE m

\* An html step that forgets the content subtype.
render_html_keeps_subtype(m) ==
    IF m._html # None
    THEN LET html == strip(BlockRender(m._html, m.context), NR)
         IN  IF html # <<>>
             THEN IF m.body = <<>>
                  THEN [m EXCEPT !.body = html]
                  ELSE [m EXCEPT !.alternatives =
                            Append(@, [content |-> html, mimetype |-> "text/html"])]
             ELSE m
    ELSE m

\* An html step that replaces the alternatives instead of appending.
render_html_replaces(m) ==
    IF m._html # None
    THEN LET html == strip(BlockRender(m._html, m.context), NR)
         IN  IF html # <<>>
             THEN IF m.body = <<>>
                  THEN [m EXCEPT !.body = html, !.content_subtype = "html"]
                  ELSE [m EXCEPT !.alternatives =
                            <<[content |-> html, mimetype |-> "text/html"]>>]
             ELSE m
    ELSE m

\* An html step that attaches a part only if the message lacks it.
render_html_dedupes(m) ==
    IF m._html # None
    THEN LET html == strip(BlockRender(m._html, m.context), NR)
             part == [content |-> html, mimetype |-> "text/html"]
         IN  IF html # <<>>
             THEN IF m.body = <<>>
                  THEN [m EXCEPT !.body = html, !.content_subtype = "html"]
                  ELSE IF \E k \in 1..Len(m.alternatives) : m.alternatives[k] = part
                       THEN m
                       ELSE [m EXCEPT !.alternatives = Append(@, part)]
             ELSE m
    ELSE m

\* An html step that sets the subtype back to plain when it attaches.
render_html_resets_subtype(m) ==
    IF m._html # None
    THEN LET html == strip(BlockRender(m._html, m.context), NR)
         IN  IF html # <<>>
             THEN IF m.body = <<>>
                  THEN [m EXCEPT !.body = html, !.content_subtype = "html"]
                  ELSE [m EXCEPT !.content_subtype = "plain",
                                 !.alternatives =
                            Append(@, [content |-> html, mimetype |-> "text/html"])]
             ELSE m
    ELSE m

\* An html step that attaches the HTML also when it becomes the body.
render_html_also_attaches(m) ==
    IF m._html # None
    THEN LET html == strip(BlockRender(m._html, m.context), NR)
         IN  IF html # <<>>
             THEN IF m.body = <<>>
                  THEN [m EXCEPT !.body = html, !.content_subtype = "html",
                                 !.alternatives =
                            Append(@, [content |-> html, mimetype |-> "text/html"])]
                  ELSE [m EXCEPT !.alternatives =
                            Append(@, [content |-> html, mimetype |-> "text/html"])]
             ELSE m
    ELSE m

\* render(), lines 92-101
render_html(m) ==
    IF m._html # None
    THEN LET html == strip(BlockRender(m._html, m.context), NR)
         IN  IF html # <<>>
             THEN IF m.body = <<>>
                  THEN [m EXCEPT !.body = html, !.content_subtype = "html"]
                  ELSE [m EXCEPT !.alternatives =
                            Append(@, [content |-> html, mimetype |-> "text/html"])]
             ELSE m
    ELSE m

\* render(): reading a slot attribute that does not exist raises
\* AttributeError and leaves what the earlier steps assigned.
render(m) ==
    IF m._subject = Undef THEN [m |-> m, err |-> "AttributeError"]
    ELSE LET m1 == render_subject(m)
         IN  IF m1._body = Undef THEN [m |-> m1, err |-> "AttributeError"]
             ELSE LET m2 == render_body(m1)
                  IN  IF m2._html = Undef
                      THEN [m |-> m2, err |-> "AttributeError"]
                      ELSE [m |-> [render_html(m2) EXCEPT !._rendered = TRUE],
                            err |-> "ok"]

\* __getstate__: the instance dict without the four cached objects.
getstate(m) ==
    [m EXCEPT !._subject = Undef, !._body = Undef, !._html = Undef,
              !._template = ""]

\* __setstate__: the dict becomes the state, then the name setter runs.
setstate(state) == set_template_name(state, state._template_name)

----------------------------------------------------------------------------
(* Calls *)

NoKw == [k \in {} |-> FALSE]

\* What the base class send() did: a count of messages sent, or an exception.
NotCalled == [err |-> "none", ret |-> -1]
Sent(n) == [err |-> "ok", ret |-> n]
Failed == [err |-> "SMTPException", ret |-> -1]

Call(op) ==
    [ op |-> op, name |-> "", args |-> <<>>, kwargs |-> NoKw,
      err |-> "ok", trace |-> <<>>, ret |-> -1,
      transport |-> NotCalled, targs |-> <<>>, tkwargs |-> NoKw ]

Fits(m) == Len(m.alternatives) <= MaxAlternatives

\* __init__(template_name, context, subject=, body=, render=)
Construct(template_name, context, subject, body, render_flag) ==
    LET r1 == set_template_name(Blank, template_name)
        m1 == [r1.m EXCEPT !.context = context, !.subject = subject,
                           !.body = body]
        r2 == IF render_flag THEN render(m1) ELSE [m |-> m1, err |-> "ok"]
        c  == [Call("init") EXCEPT !.name = template_name]
    IN  IF r1.err # "ok"
        THEN [msg |-> Blank, alive |-> FALSE,
              last |-> [c EXCEPT !.err = r1.err]]
        ELSE [msg |-> r2.m, alive |-> TRUE,
              last |-> [c EXCEPT !.err = r2.err,
                                 !.trace = IF render_flag THEN <<"render">>
                                           ELSE <<>>]]

ManualSubjects == { <<>>, <<"m">> }
ManualBodies == { <<>>, <<"m", "LF", "m">> }

Init ==
    \E tn \in TemplateNames, c \in Contexts, s \in ManualSubjects,
       b \in ManualBodies, rf \in BOOLEAN :
        LET o == Construct(tn, c, s, b, rf)
        IN  msg = o.msg /\ alive = o.alive /\ last = o.last

\* msg.template_name = value
SetTemplateName(value) ==
    /\ alive
    /\ LET r == set_template_name(msg, value)
       IN  /\ msg' = r.m
           /\ last' = [Call("template_name") EXCEPT !.name = value, !.err = r.err]
    /\ UNCHANGED alive

\* msg.template = value
SetTemplate(value) ==
    /\ alive
    /\ msg' = set_template(msg, value)
    /\ last' = [Call("template") EXCEPT !.name = value]
    /\ UNCHANGED alive

\* An assignment that also marks the instance as not rendered.
SetContext_unrenders(value) ==
    /\ alive
    /\ msg' = [msg EXCEPT !.context = value, !._rendered = FALSE]
    /\ last' = Call("context")
    /\ UNCHANGED alive

\* msg.context = value
SetContext(value) ==
    /\ alive
    /\ msg' = [msg EXCEPT !.context = value]
    /\ last' = Call("context")
    /\ UNCHANGED alive

\* msg.render()
Render ==
    /\ alive
    /\ LET r == render(msg)
       IN  /\ Fits(r.m)
           /\ msg' = r.m
           /\ last' = [Call("render") EXCEPT !.err = r.err, !.trace = <<"render">>]
    /\ UNCHANGED alive

\* What the caller may pass to send(): positional and keyword arguments.
KwargsOver(keys) == UNION { [D -> BOOLEAN] : D \in SUBSET keys }
SendArgs == { <<>> }
SendKwargs == { NoKw, [render |-> TRUE] }

\* The same, with the base class's own argument given by position or keyword.
WideSendCalls ==
    { c \in { <<>>, <<TRUE>> } \X KwargsOver({"render", "fail_silently"}) :
        c[1] = <<>> \/ "fail_silently" \notin DOMAIN c[2] }

TransportOutcomes == { Sent(1), Failed }
WideTransportOutcomes == { Sent(0), Sent(1), Failed }

\* kwargs.pop(key, default): the value, and the kwargs left.
kwargs_get(kwargs, key, default) ==
    IF key \in DOMAIN kwargs THEN kwargs[key] ELSE default
kwargs_keep(kwargs, key) == kwargs
kwargs_pop(kwargs, key) == [k \in DOMAIN kwargs \ {key} |-> kwargs[k]]

\* A gate with "and" for "or".
must_render_and(m, kwargs) == kwargs_get(kwargs, "render", FALSE) /\ ~m._rendered

\* A gate that renders on every send.
must_render_always(m, kwargs) == TRUE

\* send(), line 106: kwargs.pop('render', False) or not self._rendered
must_render(m, kwargs) == kwargs_get(kwargs, "render", FALSE) \/ ~m._rendered

\* send(), line 108: what send() hands back of the base class's outcome.
send_result(outcome) == outcome

\* msg.send(*args, **kwargs)
Send(args, kwargs, outcome) ==
    /\ alive
    /\ LET doit == must_render(msg, kwargs)
           kw   == kwargs_pop(kwargs, "render")
           r    == IF doit THEN render(msg) ELSE [m |-> msg, err |-> "ok"]
           c    == [Call("send") EXCEPT !.args = args, !.kwargs = kwargs]
           res  == send_result(outcome)
       IN  /\ Fits(r.m)
           /\ msg' = r.m
           /\ IF r.err # "ok"
              THEN last' = [c EXCEPT !.err = r.err, !.trace = <<"render">>]
              ELSE last' = [c EXCEPT !.err = res.err, !.ret = res.ret,
                                     !.trace = (IF doit THEN <<"render">> ELSE <<>>)
                                               \o <<"transport">>,
                                     !.transport = outcome,
                                     !.targs = args, !.tkwargs = kw]
    /\ UNCHANGED alive

\* pickle.loads(pickle.dumps(msg)): the instance is replaced by its restored
\* copy.  dict.iteritems exists on Python 2 only; on Python 3 __getstate__
\* raises AttributeError and nothing is pickled.
Roundtrip(python) ==
    /\ alive
    /\ IF python = 3
       THEN /\ msg' = msg
            /\ last' = [Call("pickle") EXCEPT !.err = "AttributeError"]
       ELSE LET r == setstate(getstate(msg))
            IN  /\ msg' = IF r.err = "ok" THEN r.m ELSE msg
                /\ last' = [Call("pickle") EXCEPT !.err = r.err,
                                                  !.name = msg._template_name]
    /\ UNCHANGED alive

Next ==
    \/ \E n \in TemplateNames : SetTemplateName(n)
    \/ \E t \in TemplateObjects : SetTemplate(t)
    \/ \E c \in Contexts : SetContext(c)
    \/ Render
    \/ \E a \in SendArgs, k \in SendKwargs, o \in TransportOutcomes : Send(a, k, o)
    \/ \E py \in {2, 3} : Roundtrip(py)

Spec == Init /\ [][Next]_vars

\* The same instance with few templates and every shape of send() call.
InitSend ==
    \E tn \in {"welcome", "missing"}, c \in Contexts, rf \in BOOLEAN :
        LET o == Construct(tn, c, <<>>, <<>>, rf)
        IN  msg = o.msg /\ alive = o.alive /\ last = o.last

NextSend ==
    \/ \E n \in {"htmlonly", "missing"} : SetTemplateName(n)
    \/ SetTemplate("plain")
    \/ \E c \in Contexts : SetContext(c)
    \/ Render
    \/ \E c \in WideSendCalls, o \in WideTransportOutcomes : Send(c[1], c[2], o)
    \/ \E py \in {2, 3} : Roundtrip(py)

SpecSend == InitSend /\ [][NextSend]_vars

----------------------------------------------------------------------------
(* Vocabulary of the properties *)

Slots == {"subject", "body", "html"}
Slot(m, n) == IF n = "subject" THEN m._subject
              ELSE IF n = "body" THEN m._body ELSE m._html

IsBlock(t, i, n) == nodelist(t)[i].kind = "block" /\ nodelist(t)[i].name = n
HasBlock(t, n) == \E i \in 1..Len(nodelist(t)) : IsBlock(t, i, n)
LastBlock(t, n) ==
    CHOOSE i \in 1..Len(nodelist(t)) :
        IsBlock(t, i, n) /\ \A j \in (i + 1)..Len(nodelist(t)) : ~IsBlock(t, j, n)

\* The output of template t's block n under a context, raw and stripped.
RawBlock(t, n, context) ==
    render_content(nodelist(t)[LastBlock(t, n)].content, context)
BlockText(t, n, context) == strip(RawBlock(t, n, context), NR)

\* out is raw without a prefix and a suffix made of CR/LF only, and out
\* itself neither starts nor ends with CR or LF.
IsStripOf(out, raw) ==
    \E i \in 0..Len(raw) : \E j \in i..Len(raw) :
        /\ out = SubSeq(raw, i + 1, j)
        /\ \A k \in 1..i : raw[k] \in NR
        /\ \A k \in (j + 1)..Len(raw) : raw[k] \in NR
        /\ out # <<>> => (out[1] \notin NR /\ out[Len(out)] \notin NR)

\* The call l ran render() to its end.
RenderCompleted(l) ==
    \/ l.op = "render" /\ l.err = "ok"
    \/ l.op = "init" /\ l.err = "ok" /\ l.trace = <<"render">>
    \/ l.op = "send" /\ Len(l.trace) = 2 /\ l.trace[1] = "render"

\* The body as the html step of render() finds it.
BodyBeforeHtml(m) ==
    IF m._body.st = "ref" THEN strip(BlockRender(m._body, m.context), NR)
    ELSE m.body

HtmlPart(html) == [content |-> html, mimetype |-> "text/html"]
Output(m) == <<m.subject, m.body, m.content_subtype, m.alternatives>>
Override(l) == "render" \in DOMAIN l.kwargs /\ l.kwargs["render"]

----------------------------------------------------------------------------
(* C1: send() renders first exactly when the instance is unrendered or    *)
(* render=True is passed, at most once, and before the transport call;    *)
(* otherwise it calls the transport without rendering.                    *)
C1_SendGate ==
    [][ last'.op = "send" =>
          IF Override(last') \/ ~msg._rendered
          THEN /\ msg' = render(msg).m
               /\ last'.trace = IF render(msg).err = "ok"
                                THEN <<"render", "transport">>
                                ELSE <<"render">>
          ELSE /\ msg' = msg
               /\ last'.trace = <<"transport">> ]_vars

\* send(render=True) on an instance rendered before: rendered again, then sent.
C1_Witness ==
    /\ last.op = "send" /\ Override(last)
    /\ last.trace = <<"render", "transport">>
    /\ Len(msg.alternatives) = 2

(* C2 as stated: with an html block (non-empty output) and no body block   *)
(* in the current template, after render() the body is the stripped HTML  *)
(* and the content subtype is html.                                       *)
C2_HtmlOnly_Original ==
    (/\ RenderCompleted(last)
     /\ HasBlock(msg._template, "html") /\ ~HasBlock(msg._template, "body")
     /\ BlockText(msg._template, "html", msg.context) # <<>>)
    => (/\ msg.body = BlockText(msg._template, "html", msg.context)
        /\ msg.content_subtype = "html")

(* C2 amended: the same, provided the body is empty when the html step of  *)
(* render() runs.                                                          *)
C2_HtmlOnly ==
    [][ (/\ RenderCompleted(last')
         /\ HasBlock(msg._template, "html") /\ ~HasBlock(msg._template, "body")
         /\ BlockText(msg._template, "html", msg.context) # <<>>
         /\ BodyBeforeHtml(msg) = <<>>)
        => (/\ msg'.body = BlockText(msg._template, "html", msg.context)
            /\ msg'.content_subtype = "html") ]_vars

C2_Witness ==
    /\ last.op = "render" /\ last.err = "ok"
    /\ msg._template = "htmlonly" /\ msg._body = None
    /\ msg.context.x # <<>>
    /\ msg.body = <<"h", "LF", "a">> /\ msg.content_subtype = "html"
    /\ msg.alternatives = <<>>

(* C3 as stated: with a body block and an html block in the current        *)
(* template, after render() the body is the stripped body text and the    *)
(* message has exactly one alternative, text/html, the stripped HTML.     *)
C3_BodyAndHtml_Original ==
    (/\ RenderCompleted(last)
     /\ HasBlock(msg._template, "body") /\ HasBlock(msg._template, "html"))
    => (/\ msg.body = BlockText(msg._template, "body", msg.context)
        /\ msg.alternatives =
               << HtmlPart(BlockText(msg._template, "html", msg.context)) >>)

(* C3 amended: when both blocks render non-empty, after render() the body  *)
(* is the stripped body text and render() has appended exactly one        *)
(* text/html alternative, the stripped HTML, to those already attached.   *)
C3_BodyAndHtml ==
    [][ (/\ RenderCompleted(last')
         /\ HasBlock(msg._template, "body") /\ HasBlock(msg._template, "html")
         /\ BlockText(msg._template, "body", msg.context) # <<>>
         /\ BlockText(msg._template, "html", msg.context) # <<>>)
        => (/\ msg'.body = BlockText(msg._template, "body", msg.context)
            /\ msg'.alternatives =
                   Append(msg.alternatives,
                          HtmlPart(BlockText(msg._template, "html", msg.context)))) ]_vars

C3_Witness ==
    /\ last.op = "render" /\ last.err = "ok"
    /\ msg._template = "welcome"
    /\ msg.body = <<"SP", "b", "LF", "b", "SP">>
    /\ msg.alternatives = << HtmlPart(<<"a">>) >>

(* C4: render() leaves a manually supplied subject unchanged when the      *)
(* current template has no subject block, and a manually supplied body    *)
(* unchanged when it has no body block, whatever was assigned before.     *)
C4_ManualFieldsKept ==
    [][ RenderCompleted(last') =>
          /\ (~HasBlock(msg._template, "subject") /\ msg.subject # <<>>)
                => msg'.subject = msg.subject
          /\ (~HasBlock(msg._template, "body") /\ msg.body # <<>>)
                => msg'.body = msg.body ]_vars

(* C5: after a successful template assignment a slot is set iff the new    *)
(* template has a top-level block of that name, and no slot refers to a   *)
(* block of a template assigned earlier.                                  *)
C5_SlotsFollowTemplate ==
    (last.op \in {"template_name", "template"} /\ last.err = "ok")
    => \A n \in Slots :
          /\ Slot(msg, n).st = "ref" <=> HasBlock(msg._template, n)
          /\ Slot(msg, n).st = "ref" => Slot(msg, n).t = msg._template

(* C6: an instance restored by __setstate__ from its __getstate__ has its  *)
(* template and its three slots defined and rebuilt from the stored name, *)
(* and render() on it completes with the output render() gives on the     *)
(* original.                                                              *)
C6_PickleRoundTrip ==
    [][ (last'.op = "pickle" /\ last'.err = "ok") =>
          /\ msg'._template = get_template(msg'._template_name)
          /\ \A n \in Slots :
                Slot(msg', n) = IF HasBlock(msg'._template, n)
                                THEN Ref(msg'._template, LastBlock(msg'._template, n))
                                ELSE None
          /\ render(msg').err = "ok"
          /\ Output(render(msg').m) = Output(render(msg).m) ]_vars

(* C7: a template name the loader cannot resolve fails the constructor or  *)
(* the template_name assignment itself, with no render and no transport   *)
(* call in that operation; render() and send() never raise the loader's   *)
(* error.                                                                 *)
C7_FailFast ==
    /\ (last.op \in {"init", "template_name"} /\ ~Resolves(last.name))
          => (/\ last.err = "TemplateDoesNotExist"
              /\ last.trace = <<>>
              /\ last.transport = NotCalled)
    /\ (last.op = "init" /\ ~Resolves(last.name)) => ~alive
    /\ last.op \in {"render", "send"} => last.err # "TemplateDoesNotExist"

\* The failed assignment on a live, rendered instance.
C7_Witness ==
    /\ alive /\ msg._rendered
    /\ last.op = "template_name" /\ last.name = "missing"
    /\ last.err = "TemplateDoesNotExist"

(* C8: a send() that gets past rendering calls the transport exactly once  *)
(* and ends as the transport ended (same return value, same exception);   *)
(* the transport receives the caller's arguments without 'render'.        *)
C8_Delegation ==
    last.op = "send" =>
        LET calls == { i \in 1..Len(last.trace) : last.trace[i] = "transport" }
        IN  /\ last.err # "AttributeError" => Cardinality(calls) = 1
            /\ Cardinality(calls) <= 1
            /\ calls = {} => last.transport = NotCalled
            /\ calls # {} =>
                  /\ last.transport # NotCalled
                  /\ last.err = last.transport.err
                  /\ last.ret = last.transport.ret
                  /\ last.targs = last.args
                  /\ last.tkwargs =
                        [k \in DOMAIN last.kwargs \ {"render"} |-> last.kwargs[k]]

\* send(render=False, fail_silently=True) whose transport raised.
C8_Witness ==
    /\ last.op = "send" /\ last.err = "SMTPException"
    /\ last.kwargs = [render |-> FALSE, fail_silently |-> TRUE]
    /\ last.tkwargs = [fail_silently |-> TRUE]

(* C9 as stated: after render(), the subject (the body) is the subject     *)
(* (body) block's output without its leading and trailing CR/LF and       *)
(* otherwise unchanged.                                                   *)
C9_Stripped_Original ==
    RenderCompleted(last) =>
        /\ HasBlock(msg._template, "subject")
              => IsStripOf(msg.subject, RawBlock(msg._template, "subject", msg.context))
        /\ HasBlock(msg._template, "body")
              => IsStripOf(msg.body, RawBlock(msg._template, "body", msg.context))

(* C9 amended: the same, except that when the body block's stripped output *)
(* is empty and the cached html block renders non-empty, the body is the  *)
(* stripped HTML and the content subtype is html.                         *)
C9_Stripped ==
    RenderCompleted(last) =>
        /\ HasBlock(msg._template, "subject")
              => IsStripOf(msg.subject, RawBlock(msg._template, "subject", msg.context))
        /\ HasBlock(msg._template, "body")
              => \/ IsStripOf(msg.body, RawBlock(msg._template, "body", msg.context))
                 \/ /\ IsStripOf(<<>>, RawBlock(msg._template, "body", msg.context))
                    /\ msg._html.st = "ref"
                    /\ msg.body # <<>>
                    /\ IsStripOf(msg.body, BlockRender(msg._html, msg.context))
                    /\ msg.content_subtype = "html"

\* Leading/trailing CR/LF gone, interior LF and outer spaces kept.
C9_Witness ==
    /\ last.op = "render" /\ last.err = "ok"
    /\ msg._template = "welcome"
    /\ msg.subject = <<"s", "LF", "a">>
    /\ msg.body = <<"SP", "b", "LF", "b", "SP">>

(* C10: an instance starts unrendered unless the constructor rendered it;  *)
(* the flag turns true exactly in a call in which render() completes; no  *)
(* call turns it back to false.                                           *)
C10_RenderedFlag ==
    /\ msg._rendered <=> (last.op = "init" /\ last.trace = <<"render">>)
    /\ [][ /\ msg._rendered => msg'._rendered
           /\ RenderCompleted(last') => msg'._rendered
           /\ (~msg._rendered /\ msg'._rendered) => RenderCompleted(last') ]_vars

\* Still rendered after a new template name and a new context.
C10_Witness ==
    /\ msg._rendered /\ last.op = "context"
    /\ msg._template_name = "plain" /\ msg._template = "plain"
    /\ msg.subject = <<"s">>

\* The call l entered render(), whether or not render() ran to its end.
RenderEntered(l) == Len(l.trace) >= 1 /\ l.trace[1] = "render"
Assignments == {"template_name", "template", "context"}

(* C11 as stated, step by step: the flag is true exactly when a render()   *)
(* has completed since the last assignment of the template (name) or the  *)
(* context, so it is false right after such an assignment, true right     *)
(* after a completed render(), and unchanged by every other call.         *)
C11_FlagSinceAssignment_Original ==
    /\ msg._rendered <=> RenderCompleted(last)
    /\ [][ /\ (last'.op \in Assignments /\ last'.err = "ok") => ~msg'._rendered
           /\ RenderCompleted(last') => msg'._rendered
           /\ (~(last'.op \in Assignments /\ last'.err = "ok")
               /\ ~RenderCompleted(last')) => msg'._rendered = msg._rendered ]_vars

(* C11 amended: the flag is true exactly when a render() has completed     *)
(* since the instance was constructed; assigning the template (name) or   *)
(* the context leaves it as it is, so send() without the override flag    *)
(* skips rendering, and leaves the message as it is, whenever any         *)
(* render() has completed.                                                *)
C11_FlagSinceConstruction ==
    /\ msg._rendered <=> RenderCompleted(last)
    /\ [][ /\ msg'._rendered <=> (msg._rendered \/ RenderCompleted(last'))
           /\ last'.op \in Assignments => msg'._rendered = msg._rendered
           /\ (last'.op = "send" /\ ~Override(last') /\ msg._rendered)
                 => (msg' = msg /\ ~RenderEntered(last')) ]_vars

\* Rendered from the empty x, then given another context: still "rendered".
C11_Witness ==
    /\ last.op = "context" /\ msg._rendered
    /\ msg._template = "welcome" /\ msg._subject = Ref("welcome", 2)
    /\ msg.context.x = <<"LF", "a">>
    /\ msg.subject = <<"s">>

(* C12: assigning a context changes no message field; a send() without     *)
(* render=True on a rendered instance hands the transport the fields as   *)
(* they were, rendered from the old context; the fields change only in a  *)
(* call that runs render().                                               *)
C12_StaleSend ==
    [][ /\ last'.op = "context" => Output(msg') = Output(msg)
        /\ (last'.op = "send" /\ ~Override(last') /\ msg._rendered)
              => (Output(msg') = Output(msg) /\ last'.trace = <<"transport">>)
        /\ Output(msg') # Output(msg) => RenderEntered(last') ]_vars

\* Sent with the subject of the old context although x has changed.
C12_Witness ==
    /\ last.op = "send" /\ last.trace = <<"transport">> /\ last.err = "ok"
    /\ msg._template = "welcome" /\ msg._subject = Ref("welcome", 2)
    /\ msg.context.x = <<"LF", "a">>
    /\ msg.subject = <<"s">>
    /\ msg.subject # BlockText("welcome", "subject", msg.context)

IsPrefix(a, b) == Len(a) <= Len(b) /\ SubSeq(b, 1, Len(a)) = a

\* The current template has a body and an html block, both non-empty
\* under the current context.
BodyAndHtmlNonEmpty(m) ==
    /\ HasBlock(m._template, "body") /\ HasBlock(m._template, "html")
    /\ BlockText(m._template, "body", m.context) # <<>>
    /\ BlockText(m._template, "html", m.context) # <<>>

(* C13: no call removes or replaces an alternative part (the list only     *)
(* grows at its end, and only in calls that render); a new instance has   *)
(* none; and each completed render() on an instance whose template has    *)
(* non-empty body and html blocks appends exactly one text/html part, so  *)
(* n such renders leave n parts.                                          *)
C13_AlternativesAccumulate ==
    /\ last.op = "init" =>
          (/\ ~RenderEntered(last) => msg.alternatives = <<>>
           /\ (RenderCompleted(last) /\ BodyAndHtmlNonEmpty(msg))
                 => Len(msg.alternatives) = 1)
    /\ [][ /\ IsPrefix(msg.alternatives, msg'.alternatives)
           /\ ~RenderEntered(last') => msg'.alternatives = msg.alternatives
           /\ (RenderCompleted(last') /\ BodyAndHtmlNonEmpty(msg))
                 => (/\ Len(msg'.alternatives) = Len(msg.alternatives) + 1
                     /\ msg'.alternatives[Len(msg'.alternatives)] =
                           HtmlPart(BlockText(msg._template, "html", msg.context)))
         ]_vars

\* Two renders of the same template and context: the same part twice.
C13_Witness ==
    /\ RenderCompleted(last)
    /\ msg._template = "welcome" /\ BodyAndHtmlNonEmpty(msg)
    /\ msg.alternatives = << HtmlPart(<<"a">>), HtmlPart(<<"a">>) >>

Scalars(m) == <<m.subject, m.body, m.content_subtype>>

(* C14: render() called again right after a completed render(), with the   *)
(* template and the context as they are, completes and leaves subject,    *)
(* body and content subtype as the first render() left them.              *)
C14_RenderIdempotent ==
    RenderCompleted(last) =>
        /\ render(msg).err = "ok"
        /\ Scalars(render(msg).m) = Scalars(msg)

\* After the second of two renders that took the html-only branch first.
C14_Witness ==
    /\ last.op = "render" /\ last.err = "ok"
    /\ msg._template = "htmlonly" /\ msg._body = None
    /\ msg.body = <<"h">> /\ msg.content_subtype = "html"
    /\ msg.alternatives = << HtmlPart(<<"h">>) >>

(* C15: after a template assignment each of the slots subject, body, html  *)
(* refers to the last top-level block of that name in the new template's  *)
(* node list; a slot whose name no block of the node list carries is left *)
(* as it was (None on a new instance).                                    *)
C15_LastMatchWins ==
    /\ (last.op = "init" /\ alive) =>
          \A n \in Slots :
             Slot(msg, n) = IF HasBlock(msg._template, n)
                            THEN Ref(msg._template, LastBlock(msg._template, n))
                            ELSE None
    /\ [][ (last'.op \in {"template_name", "template"} /\ last'.err = "ok") =>
             /\ msg'._template = last'.name
             /\ \A n \in Slots :
                   Slot(msg', n) = IF HasBlock(last'.name, n)
                                   THEN Ref(last'.name, LastBlock(last'.name, n))
                                   ELSE Slot(msg, n) ]_vars

\* digest has two subject blocks (nodes 1 and 3) and a footer block between.
C15_Witness ==
    /\ last.op = "template_name" /\ last.name = "digest" /\ last.err = "ok"
    /\ msg._subject = Ref("digest", 3)
    /\ msg._body = Ref("digest", 4) /\ msg._html = Ref("digest", 5)

\* The cached html block's stripped output; empty when no block is cached.
HtmlOf(m) ==
    IF m._html.st = "ref" THEN strip(BlockRender(m._html, m.context), NR)
    ELSE <<>>

(* C16: in a completed render(), with b the body as the subject and body   *)
(* steps leave it: if the cached html block is absent or renders empty,   *)
(* body, subtype and alternatives stay as those steps left them; if it    *)
(* renders non-empty and b is non-empty, body and subtype stay and exactly *)
(* one text/html part is appended; if b is empty, the body becomes the    *)
(* HTML, the subtype html, and nothing is appended.                       *)
C16_HtmlStepFrame ==
    [][ RenderCompleted(last') =>
          LET b == BodyBeforeHtml(msg)
              html == HtmlOf(msg)
          IN  IF html = <<>>
              THEN /\ msg'.body = b
                   /\ msg'.content_subtype = msg.content_subtype
                   /\ msg'.alternatives = msg.alternatives
              ELSE IF b # <<>>
                   THEN /\ msg'.body = b
                        /\ msg'.content_subtype = msg.content_subtype
                        /\ msg'.alternatives = Append(msg.alternatives, HtmlPart(html))
                   ELSE /\ msg'.body = html
                        /\ msg'.content_subtype = "html"
                        /\ msg'.alternatives = msg.alternatives ]_vars

\* An html block that renders empty: plain body, nothing attached.
C16_Witness ==
    /\ last.op = "render" /\ last.err = "ok"
    /\ msg._template = "welcome" /\ msg._html = Ref("welcome", 5)
    /\ msg.context.x = <<>>
    /\ msg.body = <<"SP", "b", "LF", "b", "SP">>
    /\ msg.content_subtype = "plain" /\ msg.alternatives = <<>>

(* C17: a template_name assignment that fails stores the unresolvable      *)
(* name and changes nothing else: template, slots and flag keep their     *)
(* values, render() gives what it gave for the old template, the stored   *)
(* name no longer names the cached template, and restoring the pickled    *)
(* instance fails on that name.                                           *)
C17_FailedAssignmentNotAtomic ==
    /\ (alive /\ ~Resolves(msg._template_name)) =>
          (/\ Resolves(msg._template)
           /\ setstate(getstate(msg)).err = "TemplateDoesNotExist")
    /\ [][ (last'.op = "template_name" /\ last'.err # "ok") =>
             /\ ~Resolves(last'.name)
             /\ msg' = [msg EXCEPT !._template_name = last'.name]
             /\ msg'._template # msg'._template_name
             /\ render(msg').err = render(msg).err
             /\ Output(render(msg').m) = Output(render(msg).m) ]_vars

\* Rendered and sent from welcome's blocks under the name "missing".
C17_Witness ==
    /\ last.op = "send" /\ last.trace = <<"render", "transport">>
    /\ msg._template_name = "missing" /\ msg._template = "welcome"
    /\ msg.subject = BlockText("welcome", "subject", msg.context)
    /\ msg.body = BlockText("welcome", "body", msg.context)

(* C18: the content subtype is plain or html, becomes html only in a call  *)
(* that runs render(), and once html it stays html through every later    *)
(* call, also when a later render() sets the body from a body block.      *)
C18_SubtypeSticks ==
    /\ msg.content_subtype \in {"plain", "html"}
    /\ (last.op = "init" /\ ~RenderEntered(last)) => msg.content_subtype = "plain"
    /\ [][ /\ msg.content_subtype = "html" => msg'.content_subtype = "html"
           /\ msg'.content_subtype # msg.content_subtype
                 => (RenderCompleted(last') /\ msg'.content_subtype = "html"
                     /\ msg'.body = HtmlOf(msg)) ]_vars

\* Subtype html although the body now is welcome's plain-text body block.
C18_Witness ==
    /\ RenderCompleted(last)
    /\ msg.content_subtype = "html"
    /\ msg._template = "welcome" /\ msg._body = Ref("welcome", 4)
    /\ msg.body = <<"SP", "b", "LF", "b", "SP">>

(* C19: with an html block (non-empty output) and no body block in the     *)
(* current template, a render() that finds the body non-empty leaves the  *)
(* body as it is and appends the newly rendered HTML as a text/html       *)
(* part; only a render() that finds the body empty writes the body.       *)
C19_HtmlOnlyBodyNotRefreshed ==
    [][ (/\ RenderCompleted(last')
         /\ HasBlock(msg._template, "html") /\ ~HasBlock(msg._template, "body")
         /\ BlockText(msg._template, "html", msg.context) # <<>>)
        => IF msg.body # <<>>
           THEN /\ msg'.body = msg.body
                /\ msg'.alternatives =
                      Append(msg.alternatives,
                             HtmlPart(BlockText(msg._template, "html", msg.context)))
           ELSE /\ msg'.body = BlockText(msg._template, "html", msg.context)
                /\ msg'.alternatives = msg.alternatives ]_vars

====
